---- MODULE Spec2Model ----
(***************************************************************************)
(* Model of create-icns.py: the builder of a macOS .icns container.        *)
(*                                                                         *)
(* One invocation of the script is a straight line of steps                *)
(*   main -> open -> convert -> resize -> loop (x7) -> assemble            *)
(*        -> openout -> write -> print -> done                             *)
(* and any step that calls the image library or the file system may raise, *)
(* which ends the process ("failed").  Bytes are integers 0..255, byte     *)
(* strings are sequences of them.  The image library (PIL) is not part of  *)
(* the repository: an image is abstracted to its mode, its size, one       *)
(* uniform pixel and the resolution its content still carries ("detail",   *)
(* which resampling can only lower), and its PNG encoding to a signature,  *)
(* a header with width, height, bit depth and colour type, and data bytes  *)
(* that depend on the pixel and the detail.                                *)
(***************************************************************************)
EXTENDS Integers, Sequences, FiniteSets, TLC

\* ------------------------------------------------------------------ bounds
\* Granularity of a failed write: the bytes that reached the disk are a
\* whole number of blocks (or nothing).
WriteBlock == 48

\* Number of invocations of the script in one behaviour.
MaxRuns == 2

\* ------------------------------------------------------------- byte helpers
Min(a, b) == IF a < b THEN a ELSE b

\* struct.pack('>I', n): 4 bytes, most significant first.  (It raises for
\* n >= 2^32; seven PNGs of at most 1024x1024 RGBA pixels stay far below.)
Pack32(n) ==
    << (n \div 16777216) % 256, (n \div 65536) % 256, (n \div 256) % 256, n % 256 >>

\* The reader's side of the format: a big-endian uint32 at offset off
\* (0-based) of the byte string b.
Unpack32(b, off) ==
    b[off + 1] * 16777216 + b[off + 2] * 65536 + b[off + 3] * 256 + b[off + 4]

Slice(b, from, to) == SubSeq(b, from + 1, to)

RECURSIVE Join(_)
\* b''.join(entries)
Join(ss) == IF ss = << >> THEN << >> ELSE Head(ss) \o Join(Tail(ss))

\* ------------------------------------------------------------ the constants
\* b'ic04' .. b'ic10' and b'icns' as bytes.
Tag04 == << 105, 99, 48, 52 >>
Tag05 == << 105, 99, 48, 53 >>
Tag06 == << 105, 99, 48, 54 >>
Tag07 == << 105, 99, 48, 55 >>
Tag08 == << 105, 99, 48, 56 >>
Tag09 == << 105, 99, 48, 57 >>
Tag10 == << 105, 99, 49, 48 >>
Magic == << 105, 99, 110, 115 >>

ICON_SIZES ==
    << << Tag04, 16 >>, << Tag05, 32 >>, << Tag06, 64 >>, << Tag07, 128 >>,
       << Tag08, 256 >>, << Tag09, 512 >>, << Tag10, 1024 >> >>

\* ------------------------------------------------------- the image library
NoImage == [mode |-> "", size |-> << 0, 0 >>, px |-> << >>, detail |-> << 0, 0 >>]

\* Image.convert('RGBA'): L replicates its grey level, RGB keeps its
\* channels, both get an opaque alpha; LA keeps its alpha.
ConvertPixel(mode, px) ==
    CASE mode = "RGBA" -> px
      [] mode = "RGB"  -> << px[1], px[2], px[3], 255 >>
      [] mode = "L"    -> << px[1], px[1], px[1], 255 >>
      [] mode = "LA"   -> << px[1], px[1], px[1], px[2] >>

Convert(im) == [im EXCEPT !.mode = "RGBA", !.px = ConvertPixel(im.mode, im.px)]

\* Image.resize(size, LANCZOS): a new image of exactly that size, same mode;
\* resampling cannot add detail, and a resize to the same size is a copy.
Resize(im, size) ==
    [im EXCEPT !.size = size,
               !.detail = << Min(im.detail[1], size[1]), Min(im.detail[2], size[2]) >>]

\* PNG colour type of a mode, and back.
ColourType(mode) ==
    CASE mode = "RGBA" -> 6
      [] mode = "RGB"  -> 2
      [] mode = "L"    -> 0
      [] mode = "LA"   -> 4

ModeOfColourType(ct) ==
    CASE ct = 6 -> "RGBA"
      [] ct = 2 -> "RGB"
      [] ct = 0 -> "L"
      [] ct = 4 -> "LA"
      [] OTHER  -> "?"

RECURSIVE Level(_)
\* Number of halvings down to 8: 16 -> 1, 32 -> 2, ..., 1024 -> 7.
Level(d) == IF d <= 8 THEN 0 ELSE 1 + Level(d \div 2)

PNGSignature == << 137, 80, 78, 71, 13, 10, 26, 10 >>

\* Image.save(buf, format='PNG'); buf.getvalue().  The data grows with the
\* detail the image carries.
PNGEncode(im) ==
    PNGSignature \o Pack32(im.size[1]) \o Pack32(im.size[2])
                 \o << 8, ColourType(im.mode) >>
                 \o im.px
                 \o << Level(im.detail[1]), Level(im.detail[2]) >>
                 \o [k \in 1 .. Level(Min(im.detail[1], im.detail[2])) |-> 0]

\* What an independent decoder reads back from a payload.
PNGValid(p) == Len(p) >= 18 /\ Slice(p, 0, 8) = PNGSignature

PNGDecode(p) ==
    [mode |-> ModeOfColourType(p[18]),
     size |-> << Unpack32(p, 8), Unpack32(p, 12) >>]

\* ------------------------------------------------------------ source files
CorruptFile == [ok |-> FALSE, im |-> NoImage]

ImageFile(mode, w, h, px) ==
    [ok |-> TRUE, im |-> [mode |-> mode, size |-> << w, h >>, px |-> px,
                          detail |-> << w, h >>]]

SourceFiles ==
    { ImageFile("RGBA", 1024, 1024, << 255, 0, 0, 128 >>),
      ImageFile("RGBA", 512, 512, << 255, 0, 0, 255 >>),
      ImageFile("RGBA", 2048, 1024, << 0, 0, 255, 64 >>),
      ImageFile("RGB", 1024, 1024, << 255, 0, 0 >>),
      ImageFile("RGB", 1024, 512, << 255, 0, 0 >>),
      ImageFile("L", 1024, 1024, << 76 >>),
      ImageFile("LA", 16, 32, << 76, 200 >>),
      CorruptFile }

\* ------------------------------------------------------------- output file
NoFile == [exists |-> FALSE, data |-> << >>]
File(bytes) == [exists |-> TRUE, data |-> bytes]
OldFile == File(<< 79, 76, 68 >>)

\* Numbers of bytes that can have reached the file when a write of n bytes
\* fails (all n of them when only the final close fails).
TruncPoints(n) == { k \in 0 .. n : k % WriteBlock = 0 \/ k = n }

\* ------------------------------------------------- the builder's own steps
\* "Ensure RGBA": convert unless the mode is already RGBA.
EnsureRGBA_Skipped(im) == im

NeedsConvert(im) == im.mode # "RGBA"

EnsureRGBA(im) == IF NeedsConvert(im) THEN Convert(im) ELSE im

\* "Ensure 1024x1024": resample unless the size is already (1024, 1024).
NeedsResize(im) == im.size # << 1024, 1024 >>

Ensure1024_Square(im) ==
    IF im.size[1] # 1024 THEN Resize(im, << 1024, 1024 >>) ELSE im

Ensure1024(im) == IF NeedsResize(im) THEN Resize(im, << 1024, 1024 >>) ELSE im

\* entry_length = 8 + len(png_data)
EntryLength_NoHeader(png_data) == Len(png_data)

EntryLength(png_data) == 8 + Len(png_data)

\* entry = ostype + struct.pack('>I', entry_length) + png_data
MakeEntry(ostype, png_data) == ostype \o Pack32(EntryLength(png_data)) \o png_data

\* entries.append(entry)
AppendEntry_Front(es, entry) == << entry >> \o es

AppendEntry(es, entry) == Append(es, entry)

\* total_size = 8 + len(body)
TotalSize_NoHeader(body) == Len(body)

TotalSize(body) == 8 + Len(body)

\* icns_data = b'icns' + struct.pack('>I', total_size) + body
IcnsData(total, body) == Magic \o Pack32(total) \o body

\* The two status lines.
CreatedLine(n) == [text |-> "Created", bytes |-> n, sizes |-> << >>]
SizesLine == [text |-> "Sizes", bytes |-> 0,
              sizes |-> [k \in 1 .. Len(ICON_SIZES) |-> ICON_SIZES[k][2]]]

\* -------------------------------------------------------------------- state
VARIABLES
    pc,         \* position of the process in the script
    runs,       \* invocations started so far
    source,     \* the file at source_path
    disk,       \* the file at output_path
    img,        \* local img
    resized,    \* local resized
    entries,    \* local entries
    icns_data,  \* local icns_data
    total_size, \* local total_size
    f,          \* the output file object: "none", "open", "closed"
    stdout,     \* lines printed by this process
    exit,       \* exit status of the process, -1 while it runs
    error,      \* kind of the exception that ended the process, "" if none
    calls,      \* history: library and file-system calls of this invocation
    disk0,      \* history: the output file when this invocation started
    prev        \* history: source and output of the last successful invocation

vars == << pc, runs, source, disk, img, resized, entries, icns_data, total_size,
           f, stdout, exit, error, calls, disk0, prev >>

locals == << img, resized, entries, icns_data, total_size >>

NoPrev == [valid |-> FALSE, source |-> CorruptFile, data |-> << >>]

Init ==
    /\ pc = "main"
    /\ runs = 0
    /\ source = CorruptFile
    /\ disk \in { NoFile, OldFile }
    /\ img = NoImage
    /\ resized = NoImage
    /\ entries = << >>
    /\ icns_data = << >>
    /\ total_size = 0
    /\ f = "none"
    /\ stdout = << >>
    /\ exit = -1
    /\ error = ""
    /\ calls = << >>
    /\ disk0 = disk
    /\ prev = NoPrev

\* An uncaught exception: traceback, exit status 1.
Raise_ExitZero(kind) ==
    /\ pc' = "failed"
    /\ error' = kind
    /\ exit' = 0

Raise(kind) ==
    /\ pc' = "failed"
    /\ error' = kind
    /\ exit' = 1

\* __main__: the script is started on some source file.
Main ==
    /\ pc = "main"
    /\ runs < MaxRuns
    /\ runs' = runs + 1
    /\ \E s \in SourceFiles : source' = s
    /\ disk0' = disk
    /\ pc' = "open"
    /\ UNCHANGED << disk, locals, f, stdout, exit, error, calls, prev >>

\* img = Image.open(source_path)
ImageOpen_CreatesOutput ==
    /\ pc = "open"
    /\ calls' = Append(calls, "Image.open")
    /\ disk' = File(<< >>)
    /\ IF source.ok
         THEN /\ img' = source.im
              /\ pc' = "convert"
              /\ UNCHANGED << exit, error >>
         ELSE /\ Raise("DecodeError")
              /\ UNCHANGED img
    /\ UNCHANGED << runs, source, resized, entries, icns_data, total_size,
                    f, stdout, disk0, prev >>

ImageOpen ==
    /\ pc = "open"
    /\ calls' = Append(calls, "Image.open")
    /\ IF source.ok
         THEN /\ img' = source.im
              /\ pc' = "convert"
              /\ UNCHANGED << exit, error >>
         ELSE /\ Raise("DecodeError")
              /\ UNCHANGED img
    /\ UNCHANGED << runs, source, disk, resized, entries, icns_data, total_size,
                    f, stdout, disk0, prev >>

\* if img.mode != 'RGBA': img = img.convert('RGBA')
ConvertStep ==
    /\ pc = "convert"
    /\ calls' = IF NeedsConvert(img) THEN Append(calls, "convert") ELSE calls
    /\ \/ /\ img' = EnsureRGBA(img)
          /\ pc' = "resize"
          /\ UNCHANGED << exit, error >>
       \/ /\ NeedsConvert(img)
          /\ Raise("ImageError")
          /\ UNCHANGED img
    /\ UNCHANGED << runs, source, disk, resized, entries, icns_data, total_size,
                    f, stdout, disk0, prev >>

\* if img.size != (1024, 1024): img = img.resize((1024, 1024), Image.LANCZOS)
ResizeStep ==
    /\ pc = "resize"
    /\ calls' = IF NeedsResize(img) THEN Append(calls, "resize") ELSE calls
    /\ \/ /\ img' = Ensure1024(img)
          /\ pc' = "loop"
          /\ UNCHANGED << exit, error >>
       \/ /\ NeedsResize(img)
          /\ Raise("ImageError")
          /\ UNCHANGED img
    /\ UNCHANGED << runs, source, disk, resized, entries, icns_data, total_size,
                    f, stdout, disk0, prev >>

\* One iteration of "for ostype, size in ICON_SIZES": resize, save, append.
LoopIter_Cascade ==
    /\ pc = "loop"
    /\ Len(entries) < Len(ICON_SIZES)
    /\ LET ostype == ICON_SIZES[Len(entries) + 1][1]
           size   == ICON_SIZES[Len(entries) + 1][2]
           r      == Resize(img, << size, size >>)
       IN  \/ /\ resized' = r
              /\ img' = r
              /\ entries' = AppendEntry(entries, MakeEntry(ostype, PNGEncode(r)))
              /\ calls' = calls \o << "resize", "save" >>
              /\ pc' = IF Len(entries') = Len(ICON_SIZES) THEN "assemble" ELSE "loop"
              /\ UNCHANGED << exit, error >>
           \/ /\ calls' = Append(calls, "resize")
              /\ Raise("ImageError")
              /\ UNCHANGED << img, resized, entries >>
           \/ /\ resized' = r
              /\ calls' = calls \o << "resize", "save" >>
              /\ Raise("ImageError")
              /\ UNCHANGED << img, entries >>
    /\ UNCHANGED << runs, source, disk, icns_data, total_size, f, stdout,
                    disk0, prev >>

LoopIter ==
    /\ pc = "loop"
    /\ Len(entries) < Len(ICON_SIZES)
    /\ LET ostype == ICON_SIZES[Len(entries) + 1][1]
           size   == ICON_SIZES[Len(entries) + 1][2]
           r      == Resize(img, << size, size >>)
       IN  \/ /\ resized' = r
              /\ entries' = AppendEntry(entries, MakeEntry(ostype, PNGEncode(r)))
              /\ calls' = calls \o << "resize", "save" >>
              /\ pc' = IF Len(entries') = Len(ICON_SIZES) THEN "assemble" ELSE "loop"
              /\ UNCHANGED << exit, error >>
           \/ /\ calls' = Append(calls, "resize")
              /\ Raise("ImageError")
              /\ UNCHANGED << resized, entries >>
           \/ /\ resized' = r
              /\ calls' = calls \o << "resize", "save" >>
              /\ Raise("ImageError")
              /\ UNCHANGED entries
    /\ UNCHANGED << runs, source, disk, img, icns_data, total_size, f, stdout,
                    disk0, prev >>

\* body, total_size and icns_data are built in memory.
Assemble ==
    /\ pc = "assemble"
    /\ LET body == Join(entries)
       IN  /\ total_size' = TotalSize(body)
           /\ icns_data' = IcnsData(total_size', body)
    /\ pc' = "openout"
    /\ UNCHANGED << runs, source, disk, img, resized, entries, f, stdout, exit,
                    error, calls, disk0, prev >>

\* open(output_path, 'wb'): creates the file or truncates it to nothing, and
\* the position is its end; or raises and leaves the path alone.
OpenOutput_Append ==
    /\ pc = "openout"
    /\ calls' = Append(calls, "open")
    /\ \/ /\ disk' = File(disk.data)
          /\ f' = "open"
          /\ pc' = "write"
          /\ UNCHANGED << exit, error >>
       \/ /\ Raise("IOError")
          /\ UNCHANGED << disk, f >>
    /\ UNCHANGED << runs, source, locals, stdout, disk0, prev >>

OpenOutput ==
    /\ pc = "openout"
    /\ calls' = Append(calls, "open")
    /\ \/ /\ disk' = File(<< >>)
          /\ f' = "open"
          /\ pc' = "write"
          /\ UNCHANGED << exit, error >>
       \/ /\ Raise("IOError")
          /\ UNCHANGED << disk, f >>
    /\ UNCHANGED << runs, source, locals, stdout, disk0, prev >>

\* f.write(icns_data) and the close at the end of the with block: all the
\* bytes reach the file, or the write raises with only some of them there.
WriteOutput ==
    /\ pc = "write"
    /\ calls' = Append(calls, "write")
    /\ f' = "closed"
    /\ \/ /\ disk' = File(disk.data \o icns_data)
          /\ pc' = "print"
          /\ UNCHANGED << exit, error >>
       \/ /\ \E k \in TruncPoints(Len(icns_data)) :
                disk' = File(disk.data \o SubSeq(icns_data, 1, k))
          /\ Raise("IOError")
    /\ UNCHANGED << runs, source, locals, stdout, disk0, prev >>

\* The two print calls, then the script ends normally.
PrintStatus ==
    /\ pc = "print"
    /\ stdout' = stdout \o << CreatedLine(total_size), SizesLine >>
    /\ pc' = "done"
    /\ exit' = 0
    /\ UNCHANGED << runs, source, disk, locals, f, error, calls, disk0, prev >>

\* The process is gone; the script can be started again.  Nothing of it
\* remains but the output file.
Rerun ==
    /\ pc \in { "done", "failed" }
    /\ runs < MaxRuns
    /\ prev' = IF pc = "done"
                 THEN [valid |-> TRUE, source |-> source, data |-> disk.data]
                 ELSE prev
    /\ pc' = "main"
    /\ source' = CorruptFile
    /\ img' = NoImage
    /\ resized' = NoImage
    /\ entries' = << >>
    /\ icns_data' = << >>
    /\ total_size' = 0
    /\ f' = "none"
    /\ stdout' = << >>
    /\ exit' = -1
    /\ error' = ""
    /\ calls' = << >>
    /\ UNCHANGED << runs, disk, disk0 >>

Next ==
    \/ Main
    \/ ImageOpen
    \/ ConvertStep
    \/ ResizeStep
    \/ LoopIter
    \/ Assemble
    \/ OpenOutput
    \/ WriteOutput
    \/ PrintStatus
    \/ Rerun

Spec == Init /\ [][Next]_vars

TypeOK ==
    /\ pc \in { "main", "open", "convert", "resize", "loop", "assemble",
                "openout", "write", "print", "done", "failed" }
    /\ runs \in 0 .. MaxRuns
    /\ f \in { "none", "open", "closed" }
    /\ exit \in { -1, 0, 1 }
    /\ error \in { "", "DecodeError", "ImageError", "IOError" }

\* ------------------------------------------------------- reading a file back
BadEntry == [tag |-> << >>, length |-> 0, payload |-> << >>]

RECURSIVE Walk(_, _)
\* The entries met when walking the byte string b from offset off by the
\* declared entry lengths; a length that does not fit ends the walk with
\* BadEntry.
Walk(b, off) ==
    IF off = Len(b) THEN << >>
    ELSE IF off + 8 > Len(b) THEN << BadEntry >>
    ELSE LET len == Unpack32(b, off + 4)
         IN  IF len < 8 \/ off + len > Len(b) THEN << BadEntry >>
             ELSE << [tag |-> Slice(b, off, off + 4), length |-> len,
                      payload |-> Slice(b, off + 8, off + len)] >>
                  \o Walk(b, off + len)

FileEntries == IF Len(disk.data) >= 8 THEN Walk(disk.data, 8) ELSE << BadEntry >>

RECURSIVE SumLen(_)
SumLen(ss) == IF ss = << >> THEN 0 ELSE Len(Head(ss)) + SumLen(Tail(ss))

IsPrefix(a, b) == Len(a) <= Len(b) /\ a = SubSeq(b, 1, Len(a))

Range(seq) == { seq[k] : k \in 1 .. Len(seq) }

\* The invocation got through the write.
Completed == pc \in { "print", "done" }

DimOfTag(tag) ==
    CASE tag = Tag04 -> 16
      [] tag = Tag05 -> 32
      [] tag = Tag06 -> 64
      [] tag = Tag07 -> 128
      [] tag = Tag08 -> 256
      [] tag = Tag09 -> 512
      [] tag = Tag10 -> 1024
      [] OTHER -> 0

NonSquareSource == source.ok /\ source.im.size[1] # source.im.size[2]

\* ------------------------------------------------------------------- claims

\* C1: once create_icns has completed, the file starts with the bytes "icns"
\* and the big-endian uint32 at bytes 4..7 is the byte length of the file,
\* which is 8 plus the lengths of all the entries.
C1_HeaderConsistent ==
    Completed =>
        /\ disk.exists
        /\ Len(disk.data) >= 8
        /\ Slice(disk.data, 0, 4) = Magic
        /\ Unpack32(disk.data, 4) = Len(disk.data)
        /\ Len(disk.data) = 8 + SumLen(entries)

C1_Witness ==
    /\ pc = "done"
    /\ NonSquareSource
    /\ source.im.mode # "RGBA"
    /\ Unpack32(disk.data, 4) = Len(disk.data)
    /\ Len(disk.data) > 8

\* C2: every entry declares a length of 8 plus its payload, so walking the
\* written file from offset 8 by the declared lengths meets exactly 7 entries,
\* the 7 that were built, and ends at the end of the file.
C2_EntryLengths ==
    /\ \A k \in 1 .. Len(entries) :
          /\ Len(entries[k]) >= 8
          /\ Unpack32(entries[k], 4) = Len(entries[k])
    /\ Completed =>
          /\ Len(FileEntries) = 7
          /\ \A k \in 1 .. Len(FileEntries) :
                LET e == FileEntries[k]
                IN  /\ e # BadEntry
                    /\ e.length = 8 + Len(e.payload)
                    /\ e.tag \o Pack32(e.length) \o e.payload = entries[k]

C2_Witness ==
    /\ pc = "done"
    /\ Len(FileEntries) = 7
    /\ \A k \in 1 .. 7 : FileEntries[k].length = 8 + Len(FileEntries[k].payload)
    /\ FileEntries[1].length # FileEntries[7].length

\* C3: the tags of a written file are ic04, ic05, ic06, ic07, ic08, ic09,
\* ic10, once each and in this order, whatever the source.
C3_TagOrder ==
    Completed =>
        [k \in 1 .. Len(FileEntries) |-> FileEntries[k].tag]
            = << Tag04, Tag05, Tag06, Tag07, Tag08, Tag09, Tag10 >>

C3_Witness ==
    /\ pc = "done"
    /\ source.im.size = << 16, 32 >>
    /\ FileEntries[1].tag = Tag04
    /\ FileEntries[7].tag = Tag10

\* C4: every payload of a written file decodes to an RGBA image whose width
\* and height are the dimension of the entry's tag.
C4_PayloadDimensions ==
    Completed =>
        \A k \in 1 .. Len(FileEntries) :
            LET e == FileEntries[k]
            IN  /\ PNGValid(e.payload)
                /\ PNGDecode(e.payload).mode = "RGBA"
                /\ DimOfTag(e.tag) > 0
                /\ PNGDecode(e.payload).size = << DimOfTag(e.tag), DimOfTag(e.tag) >>

C4_Witness ==
    /\ pc = "done"
    /\ source.im.mode = "LA"
    /\ NonSquareSource
    /\ PNGDecode(FileEntries[1].payload) = [mode |-> "RGBA", size |-> << 16, 16 >>]
    /\ PNGDecode(FileEntries[7].payload) = [mode |-> "RGBA", size |-> << 1024, 1024 >>]

\* The steps of an invocation that come before the output path is touched.
BeforeOutput == { "open", "convert", "resize", "loop", "assemble", "openout" }

Assembled ==
    /\ Len(entries) = Len(ICON_SIZES)
    /\ Len(icns_data) >= 8
    /\ Slice(icns_data, 0, 4) = Magic
    /\ Slice(icns_data, 8, Len(icns_data)) = Join(entries)

\* C5: an invocation that fails before the write (decode, conversion, resize
\* or encode failure) never opens or writes the output path, which holds
\* what it held when the invocation started; the output is opened only once
\* the seven entries and the header are assembled in memory.
C5_NoOutputOnEarlyFailure ==
    /\ (pc \in BeforeOutput \/ (pc = "failed" /\ error \in { "DecodeError", "ImageError" }))
          => /\ disk = disk0
             /\ f = "none"
             /\ "write" \notin Range(calls)
             /\ "open" \notin Range(calls)
    /\ (f # "none" \/ "open" \in Range(calls)) => Assembled

C5_Witness ==
    /\ pc = "failed"
    /\ error = "ImageError"
    /\ Len(entries) = 3
    /\ disk = OldFile
    /\ f = "none"

\* C6 as stated: after an invocation that failed with an IOError the output
\* path holds what it held before or the complete container, never an empty
\* or truncated file.
C6_AtomicWrite ==
    (pc = "failed" /\ error = "IOError") =>
        \/ disk = disk0
        \/ disk = File(icns_data)

\* C6 amended: when the open of the output path fails, the path holds what
\* it held before; once the open has succeeded the previous content is gone:
\* the file is empty until the write, and after a failed write it holds a
\* prefix of the container, possibly empty or truncated.
C6_PrefixOnWriteFailure ==
    /\ (pc = "failed" /\ error = "IOError") =>
          IF f = "none"
            THEN disk = disk0
            ELSE disk.exists /\ IsPrefix(disk.data, icns_data)
    /\ pc = "write" => disk = File(<< >>)

C6_Witness ==
    /\ pc = "failed"
    /\ error = "IOError"
    /\ f = "closed"
    /\ disk0 = OldFile
    /\ Len(disk.data) > 0
    /\ Len(disk.data) < Len(icns_data)
    /\ IsPrefix(disk.data, icns_data)

\* C7: a successful invocation on the same source as the last successful
\* one leaves the same bytes in the output file, whatever the output path
\* held when either of them started.
C7_Idempotent ==
    (Completed /\ prev.valid /\ prev.source = source) => disk.data = prev.data

C7_Witness ==
    /\ pc = "done"
    /\ prev.valid
    /\ prev.source = source
    /\ disk0.data = prev.data
    /\ disk.data = prev.data
    /\ Len(disk.data) > 8

\* C8: status lines are on stdout only when the output file is completely
\* written, the exit status is zero only then and with both lines printed,
\* and a failed invocation has printed nothing and exits non-zero.
C8_StatusAfterWrite ==
    /\ stdout # << >> =>
          /\ pc = "done"
          /\ f = "closed"
          /\ disk = File(icns_data)
          /\ stdout = << CreatedLine(Len(disk.data)), SizesLine >>
    /\ exit = 0 =>
          /\ pc = "done"
          /\ Len(stdout) = 2
          /\ disk = File(icns_data)
    /\ pc = "failed" =>
          /\ error \in { "DecodeError", "ImageError", "IOError" }
          /\ stdout = << >>
          /\ exit \notin { -1, 0 }
    /\ pc = "done" => exit = 0

C8_Witness ==
    /\ pc = "failed"
    /\ error = "IOError"
    /\ f = "closed"
    /\ stdout = << >>
    /\ exit = 1

\* What an entry for ICON_SIZES[k] holds when it is made from the image im.
EntryFrom(im, k) ==
    MakeEntry(ICON_SIZES[k][1],
              PNGEncode(Resize(im, << ICON_SIZES[k][2], ICON_SIZES[k][2] >>)))

\* The detail a payload carries, as written in its data.
PayloadDetail(p) == << p[Len(PNGSignature) + 15], p[Len(PNGSignature) + 16] >>

\* C9: the loop never changes the base image, and every entry built so far
\* is the encoding of the base image resampled to that entry's own size: it
\* carries the detail of the base image at that size, not that of a smaller
\* variant made before it.
C9_NoCascade ==
    /\ [](pc \in { "loop", "assemble" } =>
            /\ img.size = << 1024, 1024 >>
            /\ \A k \in 1 .. Len(entries) :
                  /\ entries[k] = EntryFrom(img, k)
                  /\ PayloadDetail(Slice(entries[k], 8, Len(entries[k])))
                       = << Level(Min(img.detail[1], ICON_SIZES[k][2])),
                            Level(Min(img.detail[2], ICON_SIZES[k][2])) >>)
    /\ [][pc = "loop" => img' = img]_vars

C9_Witness ==
    /\ pc = "assemble"
    /\ img.detail = << 1024, 1024 >>
    /\ PayloadDetail(Slice(entries[1], 8, Len(entries[1]))) = << 1, 1 >>
    /\ PayloadDetail(Slice(entries[7], 8, Len(entries[7]))) = << 7, 7 >>

\* The calls that normalization makes for the source image im.
NormalizationCalls(im) ==
    << "Image.open" >>
        \o (IF im.mode # "RGBA" THEN << "convert" >> ELSE << >>)
        \o (IF im.size # << 1024, 1024 >> THEN << "resize" >> ELSE << >>)

\* C10: when the entry loop starts the image is RGBA and 1024x1024; it was
\* converted exactly when the source was not RGBA, resampled exactly when
\* the source was not 1024x1024, and is the decoded source itself when
\* neither was needed; no step before the loop rejects a source: it can
\* always go on, and it fails only in a library call it had to make.
C10_Normalized ==
    /\ pc = "loop" =>
          /\ img.mode = "RGBA"
          /\ img.size = << 1024, 1024 >>
          /\ Len(img.px) = 4
          /\ (Len(entries) = 0 => calls = NormalizationCalls(source.im))
          /\ ((source.im.mode = "RGBA" /\ source.im.size = << 1024, 1024 >>)
                => img = source.im)
    /\ pc = "convert" => ENABLED (ConvertStep /\ pc' = "resize")
    /\ pc = "resize" => ENABLED (ResizeStep /\ pc' = "loop")
    /\ (pc = "failed" /\ error = "ImageError") =>
          /\ calls[Len(calls)] \in { "convert", "resize", "save" }
          /\ \/ IsPrefix(calls, NormalizationCalls(source.im))
             \/ IsPrefix(NormalizationCalls(source.im), calls)

C10_Witness ==
    /\ pc = "loop"
    /\ Len(entries) = 0
    /\ source.im.mode = "LA"
    /\ source.im.size = << 16, 32 >>
    /\ img.mode = "RGBA"
    /\ img.size = << 1024, 1024 >>
    /\ calls = << "Image.open", "convert", "resize" >>

====
